---- MODULE Spec2Model ----
(***************************************************************************)
(* Model of the sentiment engine (npcheckerapp/sentiment_utils.py) and of  *)
(* the aggregation handler get_results (npcheckerapp/views.py).            *)
(*                                                                         *)
(* Strings are sequences of one-character strings, so that the regular     *)
(* expressions of clean_text and the substring tests of the lexicon scorer *)
(* are computed character by character.  Sentiment scores are integers in  *)
(* tenths (0.8 is 8); percentages are integers in hundredths of a percent  *)
(* (33.33 is 3333), computed from exact fractions.                         *)
(***************************************************************************)
EXTENDS Integers, Sequences, FiniteSets, TLC

VARIABLES
    model,        \* sentiment_analyzer.model
    vectorizer,   \* sentiment_analyzer.vectorizer
    constructed,  \* whether __init__ has run load_models
    call,         \* the engine method running for a caller, with its argument and result
    request,      \* the request get_results is answering, with what it read
    response      \* the JsonResponse of get_results

vars == <<model, vectorizer, constructed, call, request, response>>

(***************************************************************************)
(* Bounds of the checked input sets.                                       *)
(***************************************************************************)
\* a text given to the engine is the concatenation of at most MaxFrags fragments
MaxFrags == 3
\* a CSV file holds at most MaxRows rows
MaxRows == 3
\* a candidate of a long CSV file has at most SampleCap + MaxOver rows of an age
MaxOver == 1
\* the first candidate of a dated CSV file has at most MaxDated rows
MaxDated == 2

(***************************************************************************)
(* Characters: the classes \w, \s of Python's re on str, and str.lower().  *)
(***************************************************************************)
LowerLetters ==
    <<"a","b","c","d","e","f","g","h","i","j","k","l","m",
      "n","o","p","q","r","s","t","u","v","w","x","y","z">>

UpperLetters ==
    <<"A","B","C","D","E","F","G","H","I","J","K","L","M",
      "N","O","P","Q","R","S","T","U","V","W","X","Y","Z">>

Digits == {"0","1","2","3","4","5","6","7","8","9"}

Range(f) == {f[i] : i \in DOMAIN f}

\* \w
IsWordChar(c) == c \in Range(LowerLetters) \cup Range(UpperLetters) \cup Digits \cup {"_"}

\* \s
IsSpace(c) == c \in {" ", "\t", "\n", "\r"}

\* str.lower() on one character
LowerChar(c) ==
    IF c \in Range(UpperLetters)
    THEN LowerLetters[CHOOSE i \in DOMAIN UpperLetters : UpperLetters[i] = c]
    ELSE c

\* str.lower()
lower(s) == [i \in DOMAIN s |-> LowerChar(s[i])]

\* `word in text` for two str values
Contains(word, text) ==
    \E i \in 1..(Len(text) - Len(word) + 1) :
        \A k \in 1..Len(word) : text[i + k - 1] = word[k]

(***************************************************************************)
(* EnhancedSentimentAnalyzer.clean_text                                    *)
(***************************************************************************)
\* a value given as `text`: a str (isStr, with its characters s) or any other object
Str(s) == [isStr |-> TRUE, s |-> s]
NonString == [isStr |-> FALSE, s |-> <<>>]

HTTP == <<"h","t","t","p">>

\* the first index >= i that holds a whitespace character, or Len(s) + 1
RECURSIVE EndOfNonSpace(_, _)
EndOfNonSpace(s, i) ==
    IF i > Len(s) \/ IsSpace(s[i]) THEN i ELSE EndOfNonSpace(s, i + 1)

\* whether http\S+ matches at index i
HttpMatchesAt(s, i) ==
    /\ i + 4 <= Len(s)
    /\ \A k \in 1..4 : s[i + k - 1] = HTTP[k]
    /\ ~IsSpace(s[i + 4])

\* re.sub(r'http\S+', '', text), scanning from index i
RECURSIVE SubUrls(_, _)
SubUrls(s, i) ==
    IF i > Len(s) THEN <<>>
    ELSE IF HttpMatchesAt(s, i) THEN SubUrls(s, EndOfNonSpace(s, i + 4))
    ELSE <<s[i]>> \o SubUrls(s, i + 1)

\* re.sub(r'@(\w+)', r'\1', text) and re.sub(r'#(\w+)', r'\1', text): the sigil
\* is dropped where a word character follows it
RECURSIVE SubSigil(_, _, _)
SubSigil(s, sigil, i) ==
    IF i > Len(s) THEN <<>>
    ELSE IF s[i] = sigil /\ i < Len(s) /\ IsWordChar(s[i + 1])
         THEN SubSigil(s, sigil, i + 1)
         ELSE <<s[i]>> \o SubSigil(s, sigil, i + 1)

\* re.sub(r'[^\w\s\']', ' ', text)
SubPunct(s) ==
    [i \in DOMAIN s |-> IF IsWordChar(s[i]) \/ IsSpace(s[i]) \/ s[i] = "'"
                        THEN s[i] ELSE " "]

\* str.strip()
RECURSIVE LStrip(_)
LStrip(s) == IF s # <<>> /\ IsSpace(Head(s)) THEN LStrip(Tail(s)) ELSE s

RECURSIVE RStrip(_)
RStrip(s) ==
    IF s # <<>> /\ IsSpace(s[Len(s)]) THEN RStrip(SubSeq(s, 1, Len(s) - 1)) ELSE s

strip(s) == RStrip(LStrip(s))

\* the first index >= i that holds no whitespace character, or Len(s) + 1
RECURSIVE EndOfSpaceRun(_, _)
EndOfSpaceRun(s, i) ==
    IF i > Len(s) \/ ~IsSpace(s[i]) THEN i ELSE EndOfSpaceRun(s, i + 1)

\* re.sub(r'\s+', ' ', text), scanning from index i
RECURSIVE SubSpaces(_, _)
SubSpaces(s, i) ==
    IF i > Len(s) THEN <<>>
    ELSE IF IsSpace(s[i]) THEN <<" ">> \o SubSpaces(s, EndOfSpaceRun(s, i))
    ELSE <<s[i]>> \o SubSpaces(s, i + 1)

clean_text(text) ==
    IF ~text.isStr THEN <<>>
    ELSE LET t1 == SubUrls(text.s, 1)
             t2 == SubSigil(t1, "@", 1)
             t3 == SubSigil(t2, "#", 1)
             t4 == SubPunct(t3)
             t5 == strip(lower(t4))
         IN  SubSpaces(t5, 1)

(***************************************************************************)
(* EnhancedSentimentAnalyzer._rule_based_sentiment                         *)
(***************************************************************************)
strong_positive ==
    { <<"e","x","c","e","l","l","e","n","t">>,
      <<"a","m","a","z","i","n","g">>,
      <<"w","o","n","d","e","r","f","u","l">>,
      <<"f","a","n","t","a","s","t","i","c">>,
      <<"o","u","t","s","t","a","n","d","i","n","g">>,
      <<"b","r","i","l","l","i","a","n","t">>,
      <<"s","u","p","e","r","b">>,
      <<"p","e","r","f","e","c","t">>,
      <<"e","x","c","e","p","t","i","o","n","a","l">>,
      <<"p","h","e","n","o","m","e","n","a","l">> }

positive ==
    { <<"g","o","o","d">>,
      <<"g","r","e","a","t">>,
      <<"n","i","c","e">>,
      <<"b","e","t","t","e","r">>,
      <<"i","m","p","r","o","v","e","d">>,
      <<"p","o","s","i","t","i","v","e">>,
      <<"s","u","p","p","o","r","t">>,
      <<"l","i","k","e">>,
      <<"l","o","v","e">>,
      <<"a","p","p","r","o","v","e">>,
      <<"r","e","c","o","m","m","e","n","d">> }

negative ==
    { <<"b","a","d">>,
      <<"p","o","o","r">>,
      <<"w","o","r","s","e">>,
      <<"n","e","g","a","t","i","v","e">>,
      <<"d","i","s","l","i","k","e">>,
      <<"h","a","t","e">>,
      <<"p","r","o","b","l","e","m">>,
      <<"i","s","s","u","e">>,
      <<"c","o","n","c","e","r","n">>,
      <<"c","r","i","t","i","c","i","z","e">>,
      <<"o","p","p","o","s","e">> }

strong_negative ==
    { <<"t","e","r","r","i","b","l","e">>,
      <<"a","w","f","u","l">>,
      <<"h","o","r","r","i","b","l","e">>,
      <<"d","i","s","a","s","t","r","o","u","s">>,
      <<"c","a","t","a","s","t","r","o","p","h","i","c">>,
      <<"d","r","e","a","d","f","u","l">>,
      <<"a","p","p","a","l","l","i","n","g">>,
      <<"a","t","r","o","c","i","o","u","s">>,
      <<"d","e","p","l","o","r","a","b","l","e">>,
      <<"a","b","y","s","m","a","l">> }

\* sum(1 for word in lexicon if word in text)
LexiconCount(lexicon, text) == Cardinality({word \in lexicon : Contains(word, text)})

\* a decision that gives equal masses to the positive side
RuleDecisionStrictFlipped(strong_pos_count, pos_count, neg_count, strong_neg_count) ==
    LET total_positive == strong_pos_count * 2 + pos_count
        total_negative == strong_neg_count * 2 + neg_count
    IN  IF total_positive >= total_negative
        THEN (IF strong_pos_count > 0 THEN 8 ELSE 5)
        ELSE IF total_negative > total_positive
        THEN (IF strong_neg_count > 0 THEN -8 ELSE -5)
        ELSE 0

\* the decision of lines 88-102 on the four counts
RuleDecision(strong_pos_count, pos_count, neg_count, strong_neg_count) ==
    LET total_positive == strong_pos_count * 2 + pos_count
        total_negative == strong_neg_count * 2 + neg_count
    IN  IF total_positive > total_negative
        THEN (IF strong_pos_count > 0 THEN 8 ELSE 5)
        ELSE IF total_negative > total_positive
        THEN (IF strong_neg_count > 0 THEN -8 ELSE -5)
        ELSE 0

\* _rule_based_sentiment(text) for a str given by its characters, in tenths
_rule_based_sentiment(s) ==
    LET text == lower(s)
    IN  RuleDecision(LexiconCount(strong_positive, text),
                     LexiconCount(positive, text),
                     LexiconCount(negative, text),
                     LexiconCount(strong_negative, text))

(***************************************************************************)
(* views.py: extract_keywords and the fallback keywords of get_results     *)
(***************************************************************************)
\* str.upper() on one character
UpperChar(c) ==
    IF c \in Range(LowerLetters)
    THEN UpperLetters[CHOOSE i \in DOMAIN LowerLetters : LowerLetters[i] = c]
    ELSE c

\* str.upper()
upper(s) == [i \in DOMAIN s |-> UpperChar(s[i])]

\* str.split(): the maximal runs of non-whitespace characters, from index i
RECURSIVE split(_, _)
split(s, i) ==
    IF i > Len(s) THEN <<>>
    ELSE IF IsSpace(s[i]) THEN split(s, i + 1)
    ELSE <<SubSeq(s, i, EndOfNonSpace(s, i) - 1)>> \o split(s, EndOfNonSpace(s, i))

\* the characters of word.strip('.,!?";:()[]')
StripChars == {".", ",", "!", "?", "\"", ";", ":", "(", ")", "[", "]"}

RECURSIVE LStripChars(_)
LStripChars(s) == IF s # <<>> /\ Head(s) \in StripChars THEN LStripChars(Tail(s)) ELSE s

RECURSIVE RStripChars(_)
RStripChars(s) ==
    IF s # <<>> /\ s[Len(s)] \in StripChars
    THEN RStripChars(SubSeq(s, 1, Len(s) - 1)) ELSE s

\* the allowlist of extract_keywords
KEYWORDS ==
    { <<"e","c","o","n","o","m","y">>,
      <<"a","p","c">>,
      <<"p","d","p">>,
      <<"l","p">>,
      <<"r","e","f","o","r","m">>,
      <<"m","a","n","i","f","e","s","t","o">>,
      <<"e","x","p","e","r","i","e","n","c","e">>,
      <<"g","o","v","e","r","n","a","n","c","e">>,
      <<"u","n","i","t","y">>,
      <<"y","o","u","t","h">>,
      <<"c","h","a","n","g","e">>,
      <<"a","c","c","o","u","n","t","a","b","i","l","i","t","y">>,
      <<"d","e","v","e","l","o","p","m","e","n","t">>,
      <<"e","d","u","c","a","t","i","o","n">>,
      <<"s","e","c","u","r","i","t","y">>,
      <<"j","o","b","s">>,
      <<"n","i","g","e","r","i","a">>,
      <<"v","o","t","e">>,
      <<"l","e","a","d","e","r","s","h","i","p">> }

\* the keywords of the words from index i on, in order of appearance
RECURSIVE KeywordsFrom(_, _)
KeywordsFrom(words, i) ==
    IF i > Len(words) THEN <<>>
    ELSE LET clean == RStripChars(LStripChars(words[i]))
         IN  (IF clean \in KEYWORDS THEN <<upper(clean)>> ELSE <<>>)
             \o KeywordsFrom(words, i + 1)

\* extract_keywords(text) for a str given by its characters
extract_keywords(s) == KeywordsFrom(split(lower(s), 1), 1)

\* the candidates, in the order of the loop of get_results
Candidates == <<"tinubu", "atiku", "obi">>

\* fallback[candidate]
fallback(candidate) ==
    CASE candidate = "tinubu" ->
           << <<"E","C","O","N","O","M","Y">>,
             <<"A","P","C">>,
             <<"R","E","F","O","R","M">>,
             <<"M","A","N","I","F","E","S","T","O">> >>
      [] candidate = "atiku" ->
           << <<"E","X","P","E","R","I","E","N","C","E">>,
             <<"P","D","P">>,
             <<"G","O","V","E","R","N","A","N","C","E">>,
             <<"U","N","I","T","Y">> >>
      [] candidate = "obi" ->
           << <<"Y","O","U","T","H">>,
             <<"L","P">>,
             <<"C","H","A","N","G","E">>,
             <<"A","C","C","O","U","N","T","A","B","I","L","I","T","Y">> >>

(***************************************************************************)
(* Checked inputs                                                          *)
(***************************************************************************)
RECURSIVE Concat(_)
Concat(seqs) == IF seqs = <<>> THEN <<>> ELSE Head(seqs) \o Concat(Tail(seqs))

\* the str values made of at most MaxFrags fragments of a set
StringsOf(frags) == { Concat(fs) : fs \in UNION { [1..n -> frags] : n \in 0..MaxFrags } }

\* the fragments of the texts given to clean_text and _rule_based_sentiment
Frags ==
    { <<" ">>, <<"@">>, <<"#">>, <<"!">>,
      <<"h","t">>, <<"t","p","s">>, <<"H","T">>,
      <<"g","o","o","d">>, <<"b","a","d">>,
      <<"e","x","c","e","l","l","e","n","t">>,
      <<"t","e","r","r","i","b","l","e">> }

Strings == StringsOf(Frags)

\* the values given as `text` to clean_text
TextInputs == { Str(s) : s \in Strings } \cup { NonString }

\* the fragments of the texts given to analyze_sentiment
AnalyzeFrags ==
    { <<" ">>, <<"h","t">>, <<"t","p","s">>,
      <<"g","o","o","d">>, <<"b","a","d">>,
      <<"e","x","c","e","l","l","e","n","t">>,
      <<"t","e","r","r","i","b","l","e">> }

\* the values given as `text` to analyze_sentiment
AnalyzeInputs == { Str(s) : s \in StringsOf(AnalyzeFrags) } \cup { NonString }

\* the texts of the CSV rows: "vote today", "good economy!", "excellent"
VoteToday == <<"v","o","t","e"," ","t","o","d","a","y">>
GoodEconomy == <<"g","o","o","d"," ","e","c","o","n","o","m","y","!">>
Excellent == <<"e","x","c","e","l","l","e","n","t">>

RowTexts == { Str(VoteToday), Str(GoodEconomy), Str(Excellent) }

\* clean_text, _rule_based_sentiment and extract_keywords on the texts of the
\* rows, computed once
RowCleanText == [text \in RowTexts |-> clean_text(text)]
RowRuleScore == [text \in RowTexts |-> _rule_based_sentiment(clean_text(text))]
ExtractKeywordsOf == [text \in RowTexts |-> extract_keywords(text.s)]

(***************************************************************************)
(* EnhancedSentimentAnalyzer: the loaded artifacts and analyze_sentiment   *)
(***************************************************************************)
None == "None"
Loaded == "Loaded"

\* the labels of sentiment_map
Labels == {"strong_negative", "negative", "neutral", "positive", "strong_positive"}

\* what vectorizer.transform and model.predict do on one call: transform raises,
\* predict raises, predict yields a label of sentiment_map, a label outside it,
\* or a value that cannot be a dict key (the lookup raises TypeError)
Outcomes == {"raise_transform", "raise_predict", "unhashable", "other_label"} \cup Labels

\* lines 50-61 raise inside the try block
PredictionRaises(outcome) == outcome \in {"raise_transform", "raise_predict", "unhashable"}

\* an except clause that catches only what predict raises
ExceptionCaughtOnlyPredict(outcome) == outcome = "raise_predict"

\* `except Exception` (line 63) catches what transform, predict and the lookup raise
ExceptionCaught(outcome) == outcome \in {"raise_transform", "raise_predict", "unhashable"}

\* a map whose strong labels lie outside [-1.0, 1.0]
SentimentMapGetWide(prediction) ==
    CASE prediction = "strong_negative" -> -19
      [] prediction = "negative" -> -6
      [] prediction = "neutral" -> 0
      [] prediction = "positive" -> 6
      [] prediction = "strong_positive" -> 19
      [] OTHER -> 0

\* sentiment_map.get(prediction, 0.0), in tenths (lines 54-61)
SentimentMapGet(prediction) ==
    CASE prediction = "strong_negative" -> -9
      [] prediction = "negative" -> -6
      [] prediction = "neutral" -> 0
      [] prediction = "positive" -> 6
      [] prediction = "strong_positive" -> 9
      [] OTHER -> 0

\* `if self.model and self.vectorizer` (line 48)
UsesModel == model # None /\ vectorizer # None

\* sentiment_analyzer.model is not None (views.py, model_info)
using_ml_model == model # None

\* the branch analyze_sentiment takes: the model's answer (line 61), the except
\* branch (line 65) or the else branch (line 67)
AnalyzePath(outcome) ==
    IF UsesModel
    THEN (IF PredictionRaises(outcome) THEN "fallback" ELSE "model")
    ELSE "rule"

\* whether analyze_sentiment(text) lets an exception out
AnalyzeRaises(text, outcome) ==
    UsesModel /\ PredictionRaises(outcome) /\ ~ExceptionCaught(outcome)

\* self.clean_text(text) (line 46)
CleanedText(text) == IF text \in RowTexts THEN RowCleanText[text] ELSE clean_text(text)

\* self._rule_based_sentiment(cleaned_text) (line 67)
RuleBased(text) ==
    IF text \in RowTexts THEN RowRuleScore[text]
    ELSE _rule_based_sentiment(CleanedText(text))

\* the except branch (line 65)
Fallback(text) == RuleBased(text)

\* analyze_sentiment(text), in tenths, when the artifacts behave as `outcome`
analyze_sentiment(text, outcome) ==
    IF UsesModel
    THEN IF PredictionRaises(outcome)
         THEN Fallback(text)
         ELSE SentimentMapGet(outcome)
    ELSE RuleBased(text)

\* the artifacts are consulted only when both are loaded
OutcomesNow == IF UsesModel THEN Outcomes ELSE {"unused"}

(***************************************************************************)
(* views.py: the rows of a CSV file                                        *)
(***************************************************************************)
\* row['sentiment_score']: absent or empty, a str float() parses (its value in
\* tenths), or a str float() rejects
EmptyScore == [kind |-> "empty", value |-> 0]
FloatScore(v) == [kind |-> "float", value |-> v]
InvalidScore == [kind |-> "invalid", value |-> 0]

\* row['timestamp']: a str one of the two formats parses (its age in days when
\* the request is handled, negative for a date after it), a str neither parses,
\* or None for a line with fewer fields than the header
Timestamp(age) == [kind |-> "parsed", age |-> age]
BadTimestamp == [kind |-> "invalid", age |-> 0]
MissingTimestamp == [kind |-> "missing", age |-> 0]
NoDate == [kind |-> "none", age |-> 0]

\* a row of csv.DictReader; candidate holds row['candidate'].strip().lower()
Row(candidate, text, sentiment_score, timestamp, likes, retweets) ==
    [candidate |-> candidate, text |-> text, sentiment_score |-> sentiment_score,
     timestamp |-> timestamp, likes |-> likes, retweets |-> retweets]

\* parse_datetime(dt_str): the datetime, or None
parse_datetime(dt_str) == IF dt_str.kind = "parsed" THEN dt_str ELSE NoDate

\* dt_str.strip() (line 27) on None raises AttributeError, which the
\* `except ValueError` of line 28 does not catch
ParseRaises(dt_str) == dt_str.kind = "missing"

\* whether get_recent_tweets(tweets) raises
RecentRaises(tweets) == \E i \in DOMAIN tweets : ParseRaises(tweets[i].timestamp)

\* get_recent_tweets(tweets, days): cutoff = now - days, kept when parsed >= cutoff
get_recent_tweets(tweets, days) ==
    SelectSeq(tweets, LAMBDA t : /\ parse_datetime(t.timestamp) # NoDate
                                 /\ parse_datetime(t.timestamp).age <= days)

(***************************************************************************)
(* Arithmetic on exact fractions                                           *)
(***************************************************************************)
Abs(x) == IF x < 0 THEN -x ELSE x

Min(a, b) == IF a < b THEN a ELSE b

\* sum(s), by halves
RECURSIVE SumSeq(_)
SumSeq(s) ==
    IF s = <<>> THEN 0
    ELSE IF Len(s) = 1 THEN s[1]
    ELSE LET half == Len(s) \div 2
         IN  SumSeq(SubSeq(s, 1, half)) + SumSeq(SubSeq(s, half + 1, Len(s)))

RECURSIVE ProdSeq(_)
ProdSeq(s) == IF s = <<>> THEN 1 ELSE Head(s) * ProdSeq(Tail(s))

\* a / b truncated, for a >= 0, b > 0
RoundDown(a, b) == a \div b

\* round(a / b) for a >= 0, b > 0, ties to even: Python's round()
RoundHalfEven(a, b) ==
    LET q == a \div b
        r == a % b
    IN  IF 2 * r > b THEN q + 1
        ELSE IF 2 * r = b THEN q + (q % 2)
        ELSE q

\* round(a / b) for any a, b > 0
RoundSigned(a, b) == IF a < 0 THEN -RoundHalfEven(-a, b) ELSE RoundHalfEven(a, b)

\* floor(m * a / b) for m >= 0, 0 <= a <= b, b > 0, with no intermediate m * a
MulDivFloor(m, a, b) == (m \div b) * a + ((m % b) * a) \div b

(***************************************************************************)
(* views.py: get_results                                                   *)
(***************************************************************************)
total_votes == 20000000

\* the cap of random.sample (line 103)
SampleCap == 100

\* the window of get_recent_tweets (line 102)
RecentDays == 7

\* random.sample(population, k): any k of the rows (listed here in file order:
\* the handler only sums, counts and collects over the sample), j of them from
\* the first half of the population and k - j from the second
RECURSIVE random_sample(_, _)
random_sample(population, k) ==
    IF k = 0 THEN {<<>>}
    ELSE IF Len(population) = k THEN {population}
    ELSE LET half == Len(population) \div 2
             first == SubSeq(population, 1, half)
             second == SubSeq(population, half + 1, Len(population))
         IN  UNION { { a \o b : a \in random_sample(first, j),
                                b \in random_sample(second, k - j) } :
                     j \in { i \in 0..k : i <= half /\ k - i <= Len(second) } }

\* line 103: the samples the handler may draw for a candidate's rows
Samples(data) ==
    LET recent_tweets == get_recent_tweets(data, RecentDays)
    IN  IF recent_tweets # <<>>
        THEN random_sample(recent_tweets, Min(SampleCap, Len(recent_tweets)))
        ELSE {data}

\* lines 76-86: every branch stores analyze_sentiment(row['text'])
ml_sentiment_score(row, clf) == analyze_sentiment(row.text, clf[row.text])

\* lines 110-120: the stored score when float() parses it, the engine's score
\* when it does not, the row's ml_sentiment_score when there is none
RowScore(row, clf) ==
    IF row.sentiment_score.kind # "empty"
    THEN IF row.sentiment_score.kind = "float"
         THEN row.sentiment_score.value
         ELSE analyze_sentiment(row.text, clf[row.text])
    ELSE ml_sentiment_score(row, clf)

\* lines 140-142
RECURSIVE all_keywords(_)
all_keywords(sample) ==
    IF sample = <<>> THEN <<>>
    ELSE IF Len(sample) = 1 THEN ExtractKeywordsOf[sample[1].text]
    ELSE LET half == Len(sample) \div 2
         IN  all_keywords(SubSeq(sample, 1, half))
                \o all_keywords(SubSeq(sample, half + 1, Len(sample)))

\* list(S) for a set S: its elements in any order
ListsOfSet(S) ==
    { p \in [1..Cardinality(S) -> S] : \A i, j \in DOMAIN p : i # j => p[i] # p[j] }

\* lines 144-150
PadKeywords(top_keywords, candidate) ==
    IF Len(top_keywords) < 4
    THEN SubSeq(top_keywords \o fallback(candidate), 1, 4)
    ELSE top_keywords

\* lines 143-150: the values top_keywords may take for a sample
TopKeywords(sample, candidate) ==
    { PadKeywords(SubSeq(p, 1, Min(4, Len(p))), candidate) :
        p \in ListsOfSet(Range(all_keywords(sample))) }

\* lines 105-176 for one sample and one value of top_keywords.  An average is
\* kept as the pair of its sum (in tenths) and the sample size.
Analysis(candidate, sample, top_keywords, clf) ==
    LET n == Len(sample)
        sentiment_scores == [i \in 1..n |-> RowScore(sample[i], clf)]
        ml_sentiment_scores == [i \in 1..n |-> ml_sentiment_score(sample[i], clf)]
        likes == [i \in 1..n |-> sample[i].likes]
        retweets == [i \in 1..n |-> sample[i].retweets]
    IN  [avg_sentiment |-> <<SumSeq(sentiment_scores), n>>,
         avg_ml_sentiment |-> <<SumSeq(ml_sentiment_scores), n>>,
         result |->
            [votes |-> 0, percentage |-> 0,
             sentiment |-> RoundSigned(SumSeq(sentiment_scores) * 1000, n),
             ml_sentiment |-> RoundSigned(SumSeq(ml_sentiment_scores) * 1000, n)],
         detailed |->
            [tweet_count |-> n,
             top_keywords |-> top_keywords,
             engagement |->
                [avg_likes |-> SumSeq(likes) \div n,
                 avg_retweets |-> SumSeq(retweets) \div n,
                 total_reach |-> SumSeq(likes) + SumSeq(retweets) * 2],
             sentiment_analysis |->
                [original_avg |-> RoundSigned(SumSeq(sentiment_scores) * 1000, n),
                 ml_avg |-> RoundSigned(SumSeq(ml_sentiment_scores) * 1000, n),
                 sample_size |-> n]]]

\* the analyses the loop body may produce for a candidate's rows
Analyses(candidate, data, clf) ==
    UNION { { Analysis(candidate, sample, top_keywords, clf) :
                top_keywords \in TopKeywords(sample, candidate) } :
            sample \in Samples(data) }

\* candidate_data[candidate] (lines 71-88)
candidate_data(rows, candidate) == SelectSeq(rows, LAMBDA row : row.candidate = candidate)

\* the candidates the loop does not skip (lines 96-99), in loop order
Present(rows) == SelectSeq(Candidates, LAMBDA c : candidate_data(rows, c) # <<>>)

\* sum(abs(sv) for sv in values) as a fraction over the product of the sample
\* sizes: its terms, and its numerator
Weights(values) ==
    LET N == ProdSeq([i \in DOMAIN values |-> values[i][2]])
    IN  [i \in DOMAIN values |-> Abs(values[i][1]) * (N \div values[i][2])]

total_strength(values) == SumSeq(Weights(values))

\* the fixed split of lines 184-186, each share a fraction of 100
DefaultShares == [tinubu |-> <<40, 100>>, atiku |-> <<35, 100>>, obi |-> <<25, 100>>]

\* lines 188-191 and 194-197: abs(sv) / total_strength raises ZeroDivisionError
\* on a zero total; a share is the fraction <<abs(sv), total_strength>>
SharesFrom(values) ==
    LET percentages == [i \in DOMAIN values |-> <<Weights(values)[i], total_strength(values)>>]
    IN  IF total_strength(values) = 0 /\ values # <<>>
        THEN [raised |-> TRUE, shares |-> DefaultShares]
        ELSE [raised |-> FALSE,
              shares |->
                [tinubu |-> IF Len(percentages) > 0 THEN percentages[1] ELSE <<40, 100>>,
                 atiku |-> IF Len(percentages) > 1 THEN percentages[2] ELSE <<35, 100>>,
                 obi |-> IF Len(percentages) > 2 THEN percentages[3] ELSE <<25, 100>>]]

\* the split without the default of lines 183-186: it divides by the total
VoteSharesNoDefault(sentiment_values, ml_sentiment_values) ==
    IF total_strength(ml_sentiment_values) = 0
    THEN SharesFrom(sentiment_values)
    ELSE SharesFrom(ml_sentiment_values)

\* lines 179-197
VoteShares(sentiment_values, ml_sentiment_values) ==
    IF total_strength(ml_sentiment_values) = 0
    THEN IF total_strength(sentiment_values) = 0
         THEN [raised |-> FALSE, shares |-> DefaultShares]
         ELSE SharesFrom(sentiment_values)
    ELSE SharesFrom(ml_sentiment_values)

\* round(percent, 2), in hundredths of a percent, for the share num / den
RoundPercent(share) == RoundHalfEven(10000 * share[1], share[2])

\* int(total_votes * (percent / 100)) for the share num / den
Votes(share) == MulDivFloor(total_votes, share[1], share[2])

\* the body of a JsonResponse
NoModelInfo == [using_ml_model |-> FALSE, analysis_type |-> ""]

Error(status, message) ==
    [status |-> status, error |-> message, results |-> <<>>, detailed |-> <<>>,
     model_info |-> NoModelInfo]

\* lines 208-214
model_info ==
    [using_ml_model |-> using_ml_model,
     analysis_type |-> IF model # None THEN "ML Enhanced" ELSE "Rule-Based Fallback"]

\* lines 199-216 where the assignments of lines 200-206 skip a candidate without
\* an entry
FinishSkipMissing(results, detailed, shares) ==
    [status |-> 200, error |-> "",
     results |-> [c \in DOMAIN results |->
                    [results[c] EXCEPT !.percentage = RoundPercent(shares[c]),
                                       !.votes = Votes(shares[c])]],
     detailed |-> detailed,
     model_info |-> model_info]

\* lines 199-216: results[candidate] raises KeyError for a candidate the loop
\* skipped, and `except Exception` (line 220) answers it
Finish(results, detailed, shares) ==
    IF "tinubu" \notin DOMAIN results THEN Error(500, "Internal server error: 'tinubu'")
    ELSE IF "atiku" \notin DOMAIN results THEN Error(500, "Internal server error: 'atiku'")
    ELSE IF "obi" \notin DOMAIN results THEN Error(500, "Internal server error: 'obi'")
    ELSE [status |-> 200, error |-> "",
          results |-> [c \in DOMAIN results |->
                         [results[c] EXCEPT !.percentage = RoundPercent(shares[c]),
                                            !.votes = Votes(shares[c])]],
          detailed |-> detailed,
          model_info |-> model_info]

\* lines 90-216 once the analysis of every candidate with rows is chosen
Aggregate(rows, analyses) ==
    LET present == Present(rows)
        sentiment_values == [i \in DOMAIN present |-> analyses[present[i]].avg_sentiment]
        ml_sentiment_values == [i \in DOMAIN present |-> analyses[present[i]].avg_ml_sentiment]
        results == [c \in Range(present) |-> analyses[c].result]
        detailed == [c \in Range(present) |-> analyses[c].detailed]
        vote_split == VoteShares(sentiment_values, ml_sentiment_values)
    IN  IF vote_split.raised
        THEN Error(500, "Internal server error: float division by zero")
        ELSE Finish(results, detailed, vote_split.shares)

\* what the loop of lines 96-176 may leave for a candidate: nothing when it has
\* no rows
NoAnalysis == [skipped |-> TRUE]

AnalysesOrNone(rows, candidate, clf) ==
    IF candidate_data(rows, candidate) = <<>> THEN {NoAnalysis}
    ELSE Analyses(candidate, candidate_data(rows, candidate), clf)

\* get_results(request): the responses it may give
Responses(req) ==
    IF req.method # "GET" THEN {Error(405, "Method not allowed")}
    ELSE IF ~req.csv_exists
    THEN {Error(500, "Sentiment data file not found. Please check configuration.")}
    ELSE IF req.rows = <<>> THEN {Error(500, "Internal server error: No data in CSV")}
    ELSE IF \E c \in Range(Present(req.rows)) : RecentRaises(candidate_data(req.rows, c))
    THEN {Error(500, "Internal server error: 'NoneType' object has no attribute 'strip'")}
    ELSE { Aggregate(req.rows, [tinubu |-> a1, atiku |-> a2, obi |-> a3]) :
             a1 \in AnalysesOrNone(req.rows, "tinubu", req.clf),
             a2 \in AnalysesOrNone(req.rows, "atiku", req.clf),
             a3 \in AnalysesOrNone(req.rows, "obi", req.clf) }

(***************************************************************************)
(* Checked requests                                                        *)
(***************************************************************************)
\* the rows a CSV file is made of: every candidate with every text and no stored
\* score or the stored score 0.3, every candidate with a stored score float()
\* rejects, and a row of a candidate the handler does not know
ResultRowSet ==
    { Row(c, t, sc, Timestamp(1), 12, 5) :
        c \in Range(Candidates), t \in RowTexts, sc \in {EmptyScore, FloatScore(3)} }
    \cup { Row(c, Str(GoodEconomy), InvalidScore, Timestamp(1), 12, 5) :
             c \in Range(Candidates) }
    \cup { Row("other", Str(VoteToday), EmptyScore, Timestamp(1), 12, 5) }

RECURSIVE SetToSeq(_)
SetToSeq(S) ==
    IF S = {} THEN <<>>
    ELSE LET x == CHOOSE y \in S : TRUE IN <<x>> \o SetToSeq(S \ {x})

\* the non-decreasing sequences of n indices in lo..hi
RECURSIVE SortedIndices(_, _, _)
SortedIndices(n, lo, hi) ==
    IF n = 0 THEN {<<>>}
    ELSE UNION { { <<i>> \o rest : rest \in SortedIndices(n - 1, i, hi) } : i \in lo..hi }

ResultRows == SetToSeq(ResultRowSet)

\* the files of at most MaxRows rows of ResultRows, each given by the indices of
\* its rows.  The handler groups the rows by candidate and only sums, counts and
\* collects over each group, so each bag of rows is given in one order.
ResultCsvs == UNION { SortedIndices(n, 1, Len(ResultRows)) : n \in 0..MaxRows }

\* the rows csv.DictReader reads from a file
RowsOf(csv) == [i \in DOMAIN csv |-> ResultRows[csv[i]]]

\* how the loaded artifacts answer for each text of a row
Classifiers ==
    { [t \in RowTexts |-> "other_label"],
      [t \in RowTexts |->
         CASE t = Str(VoteToday) -> "neutral"
           [] t = Str(GoodEconomy) -> "strong_positive"
           [] t = Str(Excellent) -> "raise_predict"] }

NoClassifier == [t \in RowTexts |-> "unused"]

ClassifiersNow == IF UsesModel THEN Classifiers ELSE {NoClassifier}

\* a request: its method and, for a GET, whether the chosen CSV file exists and
\* the rows read from it
Requests(csvs) ==
    { [method |-> "POST", csv_exists |-> FALSE, rows |-> <<>>, clf |-> NoClassifier],
      [method |-> "GET", csv_exists |-> FALSE, rows |-> <<>>, clf |-> NoClassifier] }
    \cup { [method |-> "GET", csv_exists |-> TRUE, rows |-> RowsOf(csv), clf |-> clf] :
             csv \in csvs, clf \in ClassifiersNow }

\* n rows of a candidate with the same text, no stored score and the same age
Copies(candidate, age, n) ==
    [i \in 1..n |-> Row(candidate, Str(VoteToday), EmptyScore, Timestamp(age), 12, 5)]

\* how many rows of the last RecentDays days, and how many older ones, a
\* candidate has in a long file: none, one, the cap of the sample, or more
RecentCounts == {0, 1} \cup (SampleCap..(SampleCap + MaxOver))

OlderCounts == {0, SampleCap + MaxOver}

\* a candidate's rows in a long file: the recent ones, then the older ones
CandidateRows(candidate, recent, older) ==
    Copies(candidate, 1, recent) \o Copies(candidate, RecentDays + 1, older)

\* the long files: for each candidate a number of recent and of older rows
LongCsvs ==
    { CandidateRows("tinubu", n[1], m[1]) \o CandidateRows("atiku", n[2], m[2])
        \o CandidateRows("obi", n[3], m[3]) :
        n \in [1..3 -> RecentCounts], m \in [1..3 -> OlderCounts] }

\* a GET request for each of the files
LongRequests ==
    { [method |-> "GET", csv_exists |-> TRUE, rows |-> rows, clf |-> clf] :
        rows \in LongCsvs, clf \in ClassifiersNow }

\* the timestamps of a dated file: a day after the request, a day and
\* RecentDays days before it, a day more than that, unparsable, and missing
Timestamps ==
    { Timestamp(-1), Timestamp(1), Timestamp(RecentDays), Timestamp(RecentDays + 1),
      BadTimestamp, MissingTimestamp }

\* the rows of a candidate in a dated file, row i with 2^(i-1) likes and no
\* retweet, so that the engagement figures tell which rows were sampled
DatedRows(candidate, stamps) ==
    [i \in DOMAIN stamps |->
        Row(candidate, Str(VoteToday), EmptyScore, stamps[i], 2 ^ (i - 1), 0)]

\* the dated files: 1..MaxDated rows of tinubu, one row of atiku and one of obi
DatedCsvs ==
    { DatedRows("tinubu", t) \o DatedRows("atiku", <<a>>) \o DatedRows("obi", <<o>>) :
        t \in UNION { [1..n -> Timestamps] : n \in 1..MaxDated },
        a \in Timestamps, o \in Timestamps }

\* a GET request for each of the files
DatedRequests ==
    { [method |-> "GET", csv_exists |-> TRUE, rows |-> rows, clf |-> clf] :
        rows \in DatedCsvs, clf \in ClassifiersNow }

(***************************************************************************)
(* State and actions                                                       *)
(***************************************************************************)
NoCall ==
    [op |-> "none", text |-> NonString, outcome |-> "unused",
     path |-> "none", cleaned |-> <<>>, score |-> 0, raised |-> FALSE]

NoRequest == [method |-> "none", csv_exists |-> FALSE, rows |-> <<>>, clf |-> NoClassifier]

NoResponse == Error(0, "")

\* __init__, lines 10-11
Init ==
    /\ model = None
    /\ vectorizer = None
    /\ constructed = FALSE
    /\ call = NoCall
    /\ request = NoRequest
    /\ response = NoResponse

\* load_models, called by __init__: both files must exist; joblib.load of either
\* may raise, and the except clause keeps what was assigned before
load_models ==
    /\ ~constructed
    /\ constructed' = TRUE
    /\ \E model_exists, vectorizer_exists, model_loads, vectorizer_loads \in BOOLEAN :
          IF model_exists /\ vectorizer_exists
          THEN IF model_loads
               THEN /\ model' = Loaded
                    /\ vectorizer' = IF vectorizer_loads THEN Loaded ELSE None
               ELSE UNCHANGED <<model, vectorizer>>
          ELSE UNCHANGED <<model, vectorizer>>
    /\ UNCHANGED <<call, request, response>>

Idle == constructed /\ call = NoCall /\ request = NoRequest

CallCleanText ==
    /\ Idle
    /\ \E text \in TextInputs :
          call' = [op |-> "clean_text", text |-> text, outcome |-> "unused",
                   path |-> "none", cleaned |-> CleanedText(text), score |-> 0,
                   raised |-> FALSE]
    /\ UNCHANGED <<model, vectorizer, constructed, request, response>>

CallRuleBased ==
    /\ Idle
    /\ \E s \in Strings :
          call' = [op |-> "_rule_based_sentiment", text |-> Str(s), outcome |-> "unused",
                   path |-> "none", cleaned |-> <<>>, score |-> _rule_based_sentiment(s),
                   raised |-> FALSE]
    /\ UNCHANGED <<model, vectorizer, constructed, request, response>>

CallAnalyze ==
    /\ Idle
    /\ \E text \in AnalyzeInputs, outcome \in OutcomesNow :
          call' = [op |-> "analyze_sentiment", text |-> text, outcome |-> outcome,
                   path |-> AnalyzePath(outcome), cleaned |-> CleanedText(text),
                   score |-> analyze_sentiment(text, outcome),
                   raised |-> AnalyzeRaises(text, outcome)]
    /\ UNCHANGED <<model, vectorizer, constructed, request, response>>

\* the caller takes the returned value; the engine keeps no trace of the call
Return ==
    /\ call # NoCall
    /\ call' = NoCall
    /\ UNCHANGED <<model, vectorizer, constructed, request, response>>

\* get_results(request) on a file of ResultCsvs
get_results ==
    /\ Idle
    /\ \E req \in Requests(ResultCsvs) :
          /\ request' = req
          /\ response' \in Responses(req)
    /\ UNCHANGED <<model, vectorizer, constructed, call>>

\* get_results(request) on a long file
get_results_long ==
    /\ Idle
    /\ \E req \in LongRequests :
          /\ request' = req
          /\ response' \in Responses(req)
    /\ UNCHANGED <<model, vectorizer, constructed, call>>

\* get_results(request) on a dated file
get_results_dated ==
    /\ Idle
    /\ \E req \in DatedRequests :
          /\ request' = req
          /\ response' \in Responses(req)
    /\ UNCHANGED <<model, vectorizer, constructed, call>>

\* the response is sent; the handler keeps nothing of the request
SendResponse ==
    /\ request # NoRequest
    /\ request' = NoRequest
    /\ response' = NoResponse
    /\ UNCHANGED <<model, vectorizer, constructed, call>>

\* the engine and the callers of analyze_sentiment
Next == load_models \/ CallAnalyze \/ Return

Spec == Init /\ [][Next]_vars

\* clean_text and _rule_based_sentiment on an engine that found no artifact
InitText ==
    /\ model = None
    /\ vectorizer = None
    /\ constructed = TRUE
    /\ call = NoCall
    /\ request = NoRequest
    /\ response = NoResponse

NextText == CallCleanText \/ CallRuleBased \/ Return

SpecText == InitText /\ [][NextText]_vars

\* the engine and the handler get_results
NextResults == load_models \/ get_results \/ SendResponse

SpecResults == Init /\ [][NextResults]_vars

\* the engine and the handler get_results on long files
NextSample == load_models \/ get_results_long \/ SendResponse

SpecSample == Init /\ [][NextSample]_vars

\* the engine and the handler get_results on dated files
NextRecency == load_models \/ get_results_dated \/ SendResponse

SpecRecency == Init /\ [][NextRecency]_vars

(***************************************************************************)
(* Properties                                                              *)
(***************************************************************************)
Success == response.status = 200

AllCandidates == Range(Candidates)

PercentSum == SumSeq([i \in DOMAIN Candidates |->
                        IF Candidates[i] \in DOMAIN response.results
                        THEN response.results[Candidates[i]].percentage ELSE 0])

\* C1: in every successful summary of get_results the vote-share percentages of
\* the candidates sum to 100.0 within 0.01 (here 10000 within 1, in hundredths
\* of a percent), whichever branch computed them.
C1_SharesSumTo100 ==
    Success => /\ DOMAIN response.results = AllCandidates
               /\ Abs(PercentSum - 10000) <= 1

\* a successful summary whose rounded percentages do not sum to exactly 100.00
C1_Witness == Success /\ PercentSum # 10000

\* a complete summary: an entry with percentage and votes for each of the three
\* candidates, the percentages summing to 100 within the rounding tolerance
CompleteSummary ==
    /\ response.status = 200
    /\ response.error = ""
    /\ DOMAIN response.results = AllCandidates
    /\ DOMAIN response.detailed = AllCandidates
    /\ \A c \in AllCandidates :
          /\ response.results[c].percentage \in 0..10000
          /\ response.results[c].votes \in 0..total_votes
    /\ Abs(PercentSum - 10000) <= 1

\* an explicit error: an error status and message, and no part of a summary
StructuredError ==
    /\ response.status \in {405, 500}
    /\ response.error # ""
    /\ response.results = <<>>
    /\ response.detailed = <<>>

\* C2: the consumer of get_results receives either a complete summary or an
\* explicit structured error, never a successful summary that misses a candidate.
C2_CompleteOrError == request # NoRequest => (CompleteSummary \/ StructuredError)

\* a file with rows for one or two of the three candidates is answered by an error
C2_Witness ==
    /\ request.method = "GET"
    /\ Len(Present(request.rows)) \in {1, 2}
    /\ StructuredError

\* C3: with model and vectorizer loaded, when transform, predict or the label
\* lookup fails, analyze_sentiment lets no exception out and returns what
\* _rule_based_sentiment gives for the same cleaned text.
C3_FallbackOnFailure ==
    (call.op = "analyze_sentiment" /\ UsesModel /\ PredictionRaises(call.outcome))
        => /\ ~call.raised
           /\ call.score = _rule_based_sentiment(clean_text(call.text))

\* transform raised on a text the lexicon scores 0.8
C3_Witness ==
    /\ call.op = "analyze_sentiment"
    /\ UsesModel
    /\ call.outcome = "raise_transform"
    /\ call.path = "fallback"
    /\ call.score = 8

\* C4: the mode flag reported to consumers (using_ml_model) is true exactly when
\* analyze_sentiment dispatches to the model-backed path.
C4_FlagMatchesDispatch ==
    call.op = "analyze_sentiment"
        => (using_ml_model <=> call.path \in {"model", "fallback"})

\* C5: after keyword extraction and fallback padding every candidate's
\* top_keywords has exactly 4 entries and no duplicate.
C5_FourDistinctKeywords ==
    Success =>
        \A c \in DOMAIN response.detailed :
            LET top_keywords == response.detailed[c].top_keywords
            IN  /\ Len(top_keywords) = 4
                /\ \A i, j \in 1..Len(top_keywords) :
                      i # j => top_keywords[i] # top_keywords[j]

\* C6: clean_text is idempotent: cleaning a cleaned text changes nothing.
C6_CleanTextIdempotent ==
    call.op = "clean_text" => clean_text(Str(call.cleaned)) = call.cleaned

AllAveragesZero ==
    \A c \in DOMAIN response.results :
        response.results[c].sentiment = 0 /\ response.results[c].ml_sentiment = 0

\* C7: when every candidate's average is zero, for the cross-check scores and for
\* the stored scores, get_results gives tinubu, atiku and obi the fixed split
\* 40.0 / 35.0 / 25.0, and no request makes it divide by a zero total strength.
C7_DefaultSplit ==
    /\ response.error # "Internal server error: float division by zero"
    /\ (Success /\ AllAveragesZero)
          => /\ response.results["tinubu"].percentage = 4000
             /\ response.results["atiku"].percentage = 3500
             /\ response.results["obi"].percentage = 2500

\* a summary of three candidates whose averages are all zero
C7_Witness ==
    /\ Success
    /\ AllAveragesZero
    /\ response.results["tinubu"].votes = 8000000

\* C8: the value analyze_sentiment returns lies in [-1.0, 1.0] (in tenths,
\* -10..10) for every input, label and path.
C8_ScoreInRange == call.op = "analyze_sentiment" => call.score \in -10..10

\* the model's answer for the label strong_negative
C8_Witness ==
    call.op = "analyze_sentiment" /\ call.path = "model" /\ call.score = -9

\* C9: for a non-string or empty text analyze_sentiment cleans it to the empty
\* string and returns 0.0 without error, in both engine modes.
C9_EmptyTextIsNeutral ==
    (call.op = "analyze_sentiment" /\ (~call.text.isStr \/ call.text.s = <<>>))
        => /\ call.cleaned = <<>>
           /\ call.score = 0
           /\ ~call.raised

\* C10: _rule_based_sentiment returns 0.8 / 0.5 when the positive mass is the
\* larger (0.8 with a strong positive word), -0.8 / -0.5 when the negative mass
\* is the larger (-0.8 with a strong negative word), and 0.0 on equal masses.
C10_DecisionTable ==
    call.op = "_rule_based_sentiment" =>
        LET text == lower(call.text.s)
            strong_pos_count == LexiconCount(strong_positive, text)
            pos_count == LexiconCount(positive, text)
            neg_count == LexiconCount(negative, text)
            strong_neg_count == LexiconCount(strong_negative, text)
            pos_mass == 2 * strong_pos_count + pos_count
            neg_mass == 2 * strong_neg_count + neg_count
        IN  /\ (pos_mass > neg_mass /\ strong_pos_count > 0) => call.score = 8
            /\ (pos_mass > neg_mass /\ strong_pos_count = 0) => call.score = 5
            /\ (neg_mass > pos_mass /\ strong_neg_count > 0) => call.score = -8
            /\ (neg_mass > pos_mass /\ strong_neg_count = 0) => call.score = -5
            /\ pos_mass = neg_mass => call.score = 0

\* a text with a strong positive and a negative word, scored 0.8
C10_Witness ==
    /\ call.op = "_rule_based_sentiment"
    /\ LexiconCount(negative, lower(call.text.s)) > 0
    /\ call.score = 8

\* the rows the sample is drawn from: the recent rows or, when there is none,
\* all the rows of the candidate
Filtered(data) ==
    LET recent_tweets == get_recent_tweets(data, RecentDays)
    IN  IF recent_tweets # <<>> THEN recent_tweets ELSE data

\* C11: for every candidate with records the sample get_results scores has
\* min(100, len(filtered)) rows, filtered being the recent rows or, when there
\* is none, all the rows of the candidate: never more than 100 rows.
C11_SampleSize ==
    Success =>
        \A c \in DOMAIN response.detailed :
            /\ response.detailed[c].tweet_count =
                  Min(SampleCap, Len(Filtered(candidate_data(request.rows, c))))
            /\ response.detailed[c].tweet_count <= SampleCap

\* C12: the recency filter keeps exactly the rows whose timestamp parses and
\* lies within [now - 7 days, now]; a row with an unparsable or missing
\* timestamp is left out without failing the call, and with no row kept all
\* the rows of the candidate are used.
C12_RecencyFilter ==
    LET InWindow(row) ==
            row.timestamp.kind = "parsed" /\ row.timestamp.age \in 0..RecentDays
        Expected(data) ==
            LET kept == SelectSeq(data, InWindow)
            IN  IF kept # <<>> THEN kept ELSE data
    IN  (request.method = "GET" /\ request.csv_exists /\ Len(Present(request.rows)) = 3)
            => /\ Success
               /\ \A c \in DOMAIN response.detailed :
                     LET sample == Expected(candidate_data(request.rows, c))
                     IN  /\ response.detailed[c].tweet_count = Len(sample)
                         /\ response.detailed[c].engagement.total_reach =
                               SumSeq([i \in DOMAIN sample |-> sample[i].likes])
                                 + 2 * SumSeq([i \in DOMAIN sample |-> sample[i].retweets])
====
